---- MODULE Spec2Model ----
(***************************************************************************)
(* The useLuminaEngine hook (src/src/hooks/useLuminaEngine.ts): the        *)
(* engine reference, the status held by useState, and the asynchronous     *)
(* functions load, sanitize, sanitizeForCI, removePII, applyPrivacyGrain.  *)
(* JavaScript runs one task at a time; an async function runs without      *)
(* interruption up to its next await, so every action below is the code    *)
(* between two awaits of one call.  The FFmpeg engine is an external       *)
(* collaborator: each of its promises resolves or rejects as it likes.     *)
(***************************************************************************)
EXTENDS Integers, Sequences, FiniteSets, TLC

\* Number of calls of the hook's functions made in one run.
MaxCalls == 3

(***************************************************************************)
(* Text.  A file name or an extension is a tuple of one-character strings, *)
(* so that the regular expression of getExtension and toLowerCase can be   *)
(* computed; Str turns it into the string handed to the engine.  A File is *)
(* a name and its bytes; bytes are a tuple of strings.                     *)
(***************************************************************************)
RECURSIVE Str(_)
Str(cs) == IF cs = <<>> THEN "" ELSE Head(cs) \o Str(Tail(cs))

\* An optional value: <<>> is undefined, <<v>> is v.
Undefined == <<>>
Some(v) == <<v>>
OrDefault(opt, d) == IF opt = Undefined THEN d ELSE opt[1]

\* getExtension: filename.match(/\.[^.]+$/), '.mp4' when there is no match.
\* The match is the last dot and what follows it, when something follows it.
LastDot(cs) ==
    LET dots == {i \in 1..Len(cs) : cs[i] = "."}
    IN  IF dots = {} THEN 0 ELSE CHOOSE i \in dots : \A j \in dots : j <= i

getExtension(filename) ==
    LET d == LastDot(filename)
    IN  IF d = 0 \/ d = Len(filename)
        THEN <<".", "m", "p", "4">>
        ELSE SubSeq(filename, d, Len(filename))

\* String.prototype.toLowerCase on the characters the file names use.
LowerChar(c) ==
    CASE c = "A" -> "a" [] c = "B" -> "b" [] c = "G" -> "g" [] c = "J" -> "j"
      [] c = "M" -> "m" [] c = "N" -> "n" [] c = "P" -> "p" [] c = "V" -> "v"
      [] OTHER -> c

toLowerCase(cs) == [i \in 1..Len(cs) |-> LowerChar(cs[i])]

\* getMimeType: the table entry of the lower-cased extension, or the fallback.
mimeTypes ==
    [e \in {".mp4", ".webm", ".mov", ".avi", ".mkv", ".mp3", ".wav", ".ogg",
            ".png", ".jpg", ".jpeg", ".gif", ".webp"} |->
        CASE e = ".mp4" -> "video/mp4"
          [] e = ".webm" -> "video/webm"
          [] e = ".mov" -> "video/quicktime"
          [] e = ".avi" -> "video/x-msvideo"
          [] e = ".mkv" -> "video/x-matroska"
          [] e = ".mp3" -> "audio/mpeg"
          [] e = ".wav" -> "audio/wav"
          [] e = ".ogg" -> "audio/ogg"
          [] e = ".png" -> "image/png"
          [] e = ".jpg" -> "image/jpeg"
          [] e = ".jpeg" -> "image/jpeg"
          [] e = ".gif" -> "image/gif"
          [] e = ".webp" -> "image/webp"]

\* Mutant of getMimeType: the extension is looked up as it is written.
getMimeTypeCaseSensitive(extension) ==
    LET key == Str(extension)
    IN  IF key \in DOMAIN mimeTypes THEN mimeTypes[key] ELSE "application/octet-stream"

getMimeType(extension) ==
    LET key == Str(toLowerCase(extension))
    IN  IF key \in DOMAIN mimeTypes THEN mimeTypes[key] ELSE "application/octet-stream"

(***************************************************************************)
(* Names and arguments of one operation.                                   *)
(***************************************************************************)
\* outputFormat || getExtension(file.name): undefined and '' both fall through.
outputExt(file, outputFormat) ==
    IF OrDefault(outputFormat, <<>>) = <<>> THEN getExtension(file.name)
    ELSE outputFormat[1]

inputFileName(file) == "input" \o Str(getExtension(file.name))
outputFileName(file, outputFormat) == "output" \o Str(outputExt(file, outputFormat))

\* Mutant of sanitizeArgs: the metadata directive is pushed after the bit-exact
\* flags.
sanitizeArgsMetadataLast(file, stripMetadata, deterministicEncoding, outputFormat) ==
    <<"-i", inputFileName(file)>>
    \o (IF deterministicEncoding
        THEN <<"-fflags", "+bitexact", "-flags:v", "+bitexact", "-flags:a", "+bitexact">>
        ELSE <<>>)
    \o (IF stripMetadata THEN <<"-map_metadata", "-1">> ELSE <<>>)
    \o <<"-y", outputFileName(file, outputFormat)>>

\* The argument list sanitize builds.
sanitizeArgs(file, stripMetadata, deterministicEncoding, outputFormat) ==
    <<"-i", inputFileName(file)>>
    \o (IF stripMetadata THEN <<"-map_metadata", "-1">> ELSE <<>>)
    \o (IF deterministicEncoding
        THEN <<"-fflags", "+bitexact", "-flags:v", "+bitexact", "-flags:a", "+bitexact">>
        ELSE <<>>)
    \o <<"-y", outputFileName(file, outputFormat)>>

\* Mutant of grainArgs: the bit-exact flags of sanitize are pushed as well.
grainArgsBitexact(file, stripMetadata, outputFormat) ==
    <<"-i", inputFileName(file)>>
    \o (IF stripMetadata THEN <<"-map_metadata", "-1">> ELSE <<>>)
    \o <<"-fflags", "+bitexact", "-flags:v", "+bitexact", "-flags:a", "+bitexact">>
    \o <<"-vf", "noise=alls=3:allf=t+u">>
    \o <<"-y", outputFileName(file, outputFormat)>>

\* The argument list applyPrivacyGrain builds.
grainArgs(file, stripMetadata, outputFormat) ==
    <<"-i", inputFileName(file)>>
    \o (IF stripMetadata THEN <<"-map_metadata", "-1">> ELSE <<>>)
    \o <<"-vf", "noise=alls=3:allf=t+u">>
    \o <<"-y", outputFileName(file, outputFormat)>>

(***************************************************************************)
(* Thrown values.  A rejection carries an Error object with a message, or  *)
(* some other value (the catch blocks test `err instanceof Error`).        *)
(***************************************************************************)
Error(msg) == [isError |-> TRUE, text |-> msg]
Thrown(value) == [isError |-> FALSE, text |-> value]

\* err instanceof Error ? err.message : fallback
errorMessage(err, fallback) == IF err.isError THEN err.text ELSE fallback

NotLoadedError == Error("FFmpeg not loaded. Call load() first.")

\* What the engine and the fetches may reject with.
Rejections == {Error("engine error"), Thrown("worker error")}

\* Fractions the engine reports in its progress events, in thousandths.
ProgressReports == {0, 375, 1000}

\* Mutant of roundPercent: Math.floor in place of Math.round.
floorPercent(k) == k \div 10

\* Math.round(progress * 100), progress given in thousandths (half rounds up).
roundPercent(k) == (k + 5) \div 10

(***************************************************************************)
(* What callers pass.                                                      *)
(***************************************************************************)
PhotoJpg == [name |-> <<"a", ".", "j", "p", "g">>, bytes |-> <<"photo">>]
DotPng == <<".", "p", "n", "g">>

\* More files and formats: an upper-case extension, no extension, a name that
\* ends in a dot, an extension the MIME table lacks, two dots, a second .jpg
\* file with other bytes; the empty string and an upper-case extension as
\* output formats.
ClipMP4 == [name |-> <<"b", ".", "M", "P", "4">>, bytes |-> <<"clip">>]
RawNoExt == [name |-> <<"r", "a", "w">>, bytes |-> <<"raw">>]
TrailingDot == [name |-> <<"c", ".">>, bytes |-> <<"dot">>]
DataBin == [name |-> <<"d", ".", "b", "i", "n">>, bytes |-> <<"data">>]
TwoDots == [name |-> <<"e", ".", "v", ".", "g", "i", "f">>, bytes |-> <<"anim">>]
OtherJpg == [name |-> <<"z", ".", "j", "p", "g">>, bytes |-> <<"other">>]
EmptyString == <<>>
DotMOV == <<".", "M", "O", "V">>

\* A call of sanitize resolves its defaults.  sanitizeForCI and removePII only
\* call sanitize, so a call of either is a call of sanitize with these options.
sanitize(file, options) ==
    [impl |-> "sanitize", file |-> file,
     stripMetadata |-> OrDefault(options.stripMetadata, TRUE),
     deterministicEncoding |-> OrDefault(options.deterministicEncoding, TRUE),
     outputFormat |-> options.outputFormat]

sanitizeForCI(file, outputFormat) ==
    sanitize(file, [stripMetadata |-> Some(TRUE), deterministicEncoding |-> Some(TRUE),
                    outputFormat |-> outputFormat])

\* Mutant of removePII: the metadata is stripped, deterministic encoding is off.
removePIIStripOnly(file, options) ==
    sanitize(file, [stripMetadata |-> Some(TRUE), deterministicEncoding |-> Some(FALSE),
                    outputFormat |-> options.outputFormat])

removePII(file, options) ==
    sanitize(file, [stripMetadata |-> Some(TRUE), deterministicEncoding |-> Some(TRUE),
                    outputFormat |-> options.outputFormat])

applyPrivacyGrain(file, options) ==
    [impl |-> "applyPrivacyGrain", file |-> file,
     stripMetadata |-> OrDefault(options.stripMetadata, TRUE),
     deterministicEncoding |-> FALSE,
     outputFormat |-> options.outputFormat]

\* The operations a run may invoke: every function of the hook, on one file.
\* The three ways of calling sanitize are then one and the same call; the
\* staged input of applyPrivacyGrain has their name and its output has not.
Requests ==
    { sanitize(PhotoJpg, [stripMetadata |-> Undefined, deterministicEncoding |-> Undefined,
                          outputFormat |-> Undefined]),
      sanitizeForCI(PhotoJpg, Undefined),
      removePII(PhotoJpg, [outputFormat |-> Undefined]),
      applyPrivacyGrain(PhotoJpg, [stripMetadata |-> Undefined,
                                   outputFormat |-> Some(DotPng)]) }

\* Every way of calling the four operations on those files.  An options object
\* may carry properties the callee does not read (applyGrain for sanitize,
\* deterministicEncoding for applyPrivacyGrain).
BuildFiles == {PhotoJpg, ClipMP4, RawNoExt, TrailingDot, DataBin, TwoDots}
Formats == {Undefined, Some(EmptyString), Some(DotPng), Some(DotMOV)}
OptionalFlag == {Undefined, Some(TRUE), Some(FALSE)}

SanitizeOptions ==
    [stripMetadata : OptionalFlag, deterministicEncoding : OptionalFlag,
     outputFormat : Formats, applyGrain : {Undefined, Some(TRUE)}]
PrivacyGrainOptions ==
    [stripMetadata : OptionalFlag, outputFormat : Formats,
     deterministicEncoding : {Undefined, Some(TRUE)}]

BuildRequests ==
    {sanitize(f, o) : f \in BuildFiles, o \in SanitizeOptions}
    \cup {sanitizeForCI(f, fmt) : f \in BuildFiles, fmt \in Formats}
    \cup {removePII(f, [outputFormat |-> fmt]) : f \in BuildFiles, fmt \in Formats}
    \cup {applyPrivacyGrain(f, o) : f \in BuildFiles, o \in PrivacyGrainOptions}

argsOf(c) ==
    IF c.impl = "sanitize"
    THEN sanitizeArgs(c.file, c.stripMetadata, c.deterministicEncoding, c.outputFormat)
    ELSE grainArgs(c.file, c.stripMetadata, c.outputFormat)

fallbackOf(c) ==
    IF c.impl = "sanitize" THEN "Sanitization failed" ELSE "Privacy grain failed"

(***************************************************************************)
(* State.                                                                  *)
(*   ffmpegRef  ffmpegRef.current: 0 is null, otherwise an index of engines*)
(*   engines    the FFmpeg instances created so far: the loaded flag and   *)
(*              the instance's virtual filesystem, a function from the     *)
(*              names of its files to their bytes                          *)
(*   state      the hook's useState record                                 *)
(*   calls      the calls made so far, in the order of invocation.  A call *)
(*              in flight: the await it stands at (pc), its local          *)
(*              variables and the engine call it is awaiting.  A settled   *)
(*              call: the result its caller got; its locals are gone.      *)
(*   last       history: the call that settled most recently and the await *)
(*              or statement that ended it                                 *)
(***************************************************************************)
VARIABLES ffmpegRef, engines, state, calls, last

vars == <<ffmpegRef, engines, state, calls, last>>

NoEngine == 0

\* The virtual filesystem of an engine instance: ffmpeg.writeFile(name, data)
\* creates or overwrites name, ffmpeg.deleteFile(name) removes it, and
\* ffmpeg.exec(args) writes the file args names last, encoded from the staged
\* file args names after -i: what is written is a function of those bytes and args.
EmptyFS == [n \in {} |-> <<>>]
writeFile(fs, name, data) ==
    [n \in DOMAIN fs \cup {name} |-> IF n = name THEN data ELSE fs[n]]
deleteFile(fs, name) == [n \in DOMAIN fs \ {name} |-> fs[n]]
encoded(data, args) == <<"ffmpeg">> \o args \o <<"<">> \o data

\* Mutant of refLoaded: the instance exists, its loaded flag is not read.
refLoadedIgnoringFlag == ffmpegRef # NoEngine

\* ffmpegRef.current?.loaded
refLoaded == ffmpegRef # NoEngine /\ engines[ffmpegRef].loaded

\* The setState updaters.
loadedAgain(prev) == [prev EXCEPT !.isLoaded = TRUE]
loadSucceeded(prev) == [prev EXCEPT !.isLoaded = TRUE, !.error = Undefined]
\* Mutant of loadFailed: the catch block of load records a fixed text.
loadFailedFixedText(prev, msg) == [prev EXCEPT !.error = Some("Failed to load FFmpeg")]

loadFailed(prev, msg) == [prev EXCEPT !.error = Some(msg)]
progressed(prev, k) == [prev EXCEPT !.progress = roundPercent(k)]
succeeded(prev) == [prev EXCEPT !.isProcessing = FALSE, !.progress = 100]
\* Mutant of started: the progress of the previous operation is kept.
startedKeepsProgress(prev) == [prev EXCEPT !.isProcessing = TRUE, !.error = Undefined]

started(prev) == [prev EXCEPT !.isProcessing = TRUE, !.progress = 0, !.error = Undefined]
\* Mutants of failed: the catch block also resets progress; the catch block
\* leaves isProcessing set.
failedResetsProgress(prev, msg) ==
    [prev EXCEPT !.isProcessing = FALSE, !.progress = 0, !.error = Some(msg)]
failedStaysProcessing(prev, msg) == [prev EXCEPT !.error = Some(msg)]

failed(prev, msg) == [prev EXCEPT !.isProcessing = FALSE, !.error = Some(msg)]

Init ==
    /\ ffmpegRef = NoEngine
    /\ engines = <<>>
    /\ state = [isLoaded |-> FALSE, isProcessing |-> FALSE, progress |-> 0,
                error |-> Undefined]
    /\ calls = <<>>
    /\ last = Undefined

NoFile == [name |-> <<>>, bytes |-> <<>>]

LoadFn == [impl |-> "load", file |-> NoFile, stripMetadata |-> FALSE,
           deterministicEncoding |-> FALSE, outputFormat |-> Undefined]

NewCall(req, pc, ffmpeg, result) ==
    [impl |-> req.impl, file |-> req.file,
     stripMetadata |-> req.stripMetadata,
     deterministicEncoding |-> req.deterministicEncoding,
     outputFormat |-> req.outputFormat,
     pc |-> pc, ffmpeg |-> ffmpeg, awaiting |-> Undefined, blob |-> Undefined, result |-> result]

\* How a call settled: Pending, Resolved(Void), Resolved(Some(blob)), Rejected(err).
Pending == Undefined
Void == Undefined
Resolved(value) == Some([ok |-> TRUE, value |-> value])
Rejected(err) == Some([ok |-> FALSE, value |-> Some(err)])

Calls == 1..Len(calls)
LoadCalls == {i \in Calls : calls[i].impl = "load"}
OpCalls == Calls \ LoadCalls

\* The call c makes the engine call fn(args) and awaits it; resolve and reject
\* end the call.
issue(c, fn, args) == [c EXCEPT !.awaiting = Some([fn |-> fn, args |-> args])]
gone(c) == NewCall([LoadFn EXCEPT !.impl = c.impl], "gone", NoEngine, Pending)
resolve(c, value) == [gone(c) EXCEPT !.result = Resolved(value)]
reject(c, err) == [gone(c) EXCEPT !.result = Rejected(err)]
Settled(i, at) == Some([call |-> i, at |-> at])

(***************************************************************************)
(* load                                                                    *)
(***************************************************************************)
\* load() up to its first await (the first toBlobURL), or its early return.
LoadCall ==
    /\ Len(calls) < MaxCalls
    /\ IF refLoaded
       THEN /\ state' = loadedAgain(state)
            /\ calls' = Append(calls, resolve(LoadFn, Void))
            /\ last' = Settled(Len(calls) + 1, "return")
            /\ UNCHANGED <<ffmpegRef, engines>>
       ELSE /\ engines' = Append(engines, [loaded |-> FALSE, fs |-> EmptyFS])
            /\ ffmpegRef' = Len(engines) + 1
            /\ calls' = Append(calls, NewCall(LoadFn, "toBlobURL", Len(engines) + 1, Pending))
            /\ UNCHANGED <<state, last>>

LoadAt(i, pc) == calls[i].impl = "load" /\ calls[i].pc = pc /\ calls[i].result = Pending

\* The catch block of load.
loadCatch(i, err) ==
    /\ state' = loadFailed(state, errorMessage(err, "Failed to load FFmpeg"))
    /\ calls' = [calls EXCEPT ![i] = reject(@, err)]
    /\ last' = Settled(i, calls[i].pc)
    /\ UNCHANGED <<ffmpegRef, engines>>

\* Both toBlobURL fetches resolved (nothing changes between them): ffmpeg.load
\* is called on the instance this call created.
ToBlobURLResolve(i) ==
    /\ LoadAt(i, "toBlobURL")
    /\ calls' = [calls EXCEPT ![i] = [issue(@, "load", <<>>) EXCEPT !.pc = "ffmpeg.load"]]
    /\ UNCHANGED <<ffmpegRef, engines, state, last>>

ToBlobURLReject(i, err) ==
    /\ LoadAt(i, "toBlobURL")
    /\ loadCatch(i, err)

\* ffmpeg.load resolved: the instance is loaded and load() runs to its end.
FFmpegLoadResolve(i) ==
    /\ LoadAt(i, "ffmpeg.load")
    /\ engines' = [engines EXCEPT ![calls[i].ffmpeg].loaded = TRUE]
    /\ state' = loadSucceeded(state)
    /\ calls' = [calls EXCEPT ![i] = resolve(@, Void)]
    /\ last' = Settled(i, "return")
    /\ UNCHANGED ffmpegRef

FFmpegLoadReject(i, err) ==
    /\ LoadAt(i, "ffmpeg.load")
    /\ loadCatch(i, err)

(***************************************************************************)
(* sanitize and applyPrivacyGrain (sanitizeForCI and removePII are calls   *)
(* of sanitize).  The two bodies differ in the argument list and in the    *)
(* fallback message only.                                                  *)
(***************************************************************************)
\* The call up to its first await (fetchFile), or the not-loaded throw.
OpCall(req) ==
    /\ Len(calls) < MaxCalls
    /\ IF ~refLoaded
       THEN /\ calls' = Append(calls, reject(req, NotLoadedError))
            /\ last' = Settled(Len(calls) + 1, "throw")
            /\ UNCHANGED <<ffmpegRef, engines, state>>
       ELSE /\ state' = started(state)
            /\ calls' = Append(calls, NewCall(req, "fetchFile", ffmpegRef, Pending))
            /\ UNCHANGED <<ffmpegRef, engines, last>>

\* The catch block of sanitize and of applyPrivacyGrain.
opCatch(i, err) ==
    /\ state' = failed(state, errorMessage(err, fallbackOf(calls[i])))
    /\ calls' = [calls EXCEPT ![i] = reject(@, err)]
    /\ last' = Settled(i, calls[i].pc)
    /\ UNCHANGED <<ffmpegRef, engines>>

At(i, pc) == calls[i].impl # "load" /\ calls[i].pc = pc /\ calls[i].result = Pending

\* fetchFile(file) resolved with the bytes of the file:
\* ffmpeg.writeFile(inputFileName, data) is called.
FetchFileResolve(i) ==
    /\ At(i, "fetchFile")
    /\ calls' = [calls EXCEPT ![i] =
                    [issue(@, "writeFile", <<inputFileName(@.file)>> \o @.file.bytes)
                        EXCEPT !.pc = "writeFile"]]
    /\ UNCHANGED <<ffmpegRef, engines, state, last>>

FetchFileReject(i, err) ==
    /\ At(i, "fetchFile")
    /\ opCatch(i, err)

\* writeFile resolved: the input is staged, the arguments are built and
\* ffmpeg.exec(ffmpegArgs) is called.
WriteFileResolve(i) ==
    /\ At(i, "writeFile")
    /\ engines' = [engines EXCEPT ![calls[i].ffmpeg].fs =
                      writeFile(@, inputFileName(calls[i].file), calls[i].file.bytes)]
    /\ calls' = [calls EXCEPT ![i] = [issue(@, "exec", argsOf(@)) EXCEPT !.pc = "exec"]]
    /\ UNCHANGED <<ffmpegRef, state, last>>

WriteFileReject(i, err) ==
    /\ At(i, "writeFile")
    /\ opCatch(i, err)

\* The 'progress' listener registered by load, fired while exec runs.
ProgressEvent(i, k) ==
    /\ At(i, "exec")
    /\ state' = progressed(state, k)
    /\ UNCHANGED <<ffmpegRef, engines, calls, last>>

\* exec resolved, having written the output (from the staged input it found)
\* or not: ffmpeg.readFile is called.
ExecResolve(i, produced) ==
    /\ At(i, "exec")
    /\ produced => inputFileName(calls[i].file) \in DOMAIN engines[calls[i].ffmpeg].fs
    /\ engines' = [engines EXCEPT ![calls[i].ffmpeg].fs =
                      IF produced
                      THEN writeFile(@, outputFileName(calls[i].file, calls[i].outputFormat),
                                     encoded(@[inputFileName(calls[i].file)], argsOf(calls[i])))
                      ELSE @]
    /\ calls' = [calls EXCEPT ![i] =
                    [issue(@, "readFile", <<outputFileName(@.file, @.outputFormat)>>)
                        EXCEPT !.pc = "readFile"]]
    /\ UNCHANGED <<ffmpegRef, state, last>>

ExecReject(i, err) ==
    /\ At(i, "exec")
    /\ opCatch(i, err)

\* readFile resolved (the output exists): the blob is built with its MIME type
\* and ffmpeg.deleteFile(inputFileName) is called.
ReadFileResolve(i) ==
    /\ At(i, "readFile")
    /\ outputFileName(calls[i].file, calls[i].outputFormat) \in DOMAIN engines[calls[i].ffmpeg].fs
    /\ calls' = [calls EXCEPT ![i] =
                    [issue(@, "deleteFile", <<inputFileName(@.file)>>)
                        EXCEPT !.pc = "deleteInput",
                               !.blob = Some(
                                   [type |-> getMimeType(
                                        outputExt(calls[i].file, calls[i].outputFormat)),
                                    bytes |-> engines[calls[i].ffmpeg].fs[
                                        outputFileName(calls[i].file, calls[i].outputFormat)]])]]
    /\ UNCHANGED <<ffmpegRef, engines, state, last>>

ReadFileReject(i, err) ==
    /\ At(i, "readFile")
    /\ opCatch(i, err)

\* Mutant of DeleteInputResolve: the status is set and the blob returned once
\* the input is deleted; the output is left behind.
DeleteInputResolveReturns(i) ==
    /\ At(i, "deleteInput")
    /\ inputFileName(calls[i].file) \in DOMAIN engines[calls[i].ffmpeg].fs
    /\ engines' = [engines EXCEPT ![calls[i].ffmpeg].fs =
                      deleteFile(@, inputFileName(calls[i].file))]
    /\ state' = [state EXCEPT !.isProcessing = FALSE, !.progress = 100]
    /\ calls' = [calls EXCEPT ![i] = resolve(@, @.blob)]
    /\ last' = Settled(i, "return")
    /\ UNCHANGED ffmpegRef

\* deleteFile(inputFileName) resolved (the file existed): deleteFile(outputFileName)
\* is called.
DeleteInputResolve(i) ==
    /\ At(i, "deleteInput")
    /\ inputFileName(calls[i].file) \in DOMAIN engines[calls[i].ffmpeg].fs
    /\ engines' = [engines EXCEPT ![calls[i].ffmpeg].fs =
                      deleteFile(@, inputFileName(calls[i].file))]
    /\ calls' = [calls EXCEPT ![i] =
                    [issue(@, "deleteFile", <<outputFileName(@.file, @.outputFormat)>>)
                        EXCEPT !.pc = "deleteOutput"]]
    /\ UNCHANGED <<ffmpegRef, state, last>>

DeleteInputReject(i, err) ==
    /\ At(i, "deleteInput")
    /\ opCatch(i, err)

\* deleteFile(outputFileName) resolved: the status is set and the blob returned.
DeleteOutputResolve(i) ==
    /\ At(i, "deleteOutput")
    /\ outputFileName(calls[i].file, calls[i].outputFormat) \in DOMAIN engines[calls[i].ffmpeg].fs
    /\ engines' = [engines EXCEPT ![calls[i].ffmpeg].fs =
                      deleteFile(@, outputFileName(calls[i].file, calls[i].outputFormat))]
    /\ state' = succeeded(state)
    /\ calls' = [calls EXCEPT ![i] = resolve(@, @.blob)]
    /\ last' = Settled(i, "return")
    /\ UNCHANGED ffmpegRef

DeleteOutputReject(i, err) ==
    /\ At(i, "deleteOutput")
    /\ opCatch(i, err)

Next ==
    \/ LoadCall
    \/ \E i \in Calls : ToBlobURLResolve(i)
    \/ \E i \in Calls, err \in Rejections : ToBlobURLReject(i, err)
    \/ \E i \in Calls : FFmpegLoadResolve(i)
    \/ \E i \in Calls, err \in Rejections : FFmpegLoadReject(i, err)
    \/ \E req \in Requests : OpCall(req)
    \/ \E i \in Calls : FetchFileResolve(i)
    \/ \E i \in Calls, err \in Rejections : FetchFileReject(i, err)
    \/ \E i \in Calls : WriteFileResolve(i)
    \/ \E i \in Calls, err \in Rejections : WriteFileReject(i, err)
    \/ \E i \in Calls, k \in ProgressReports : ProgressEvent(i, k)
    \/ \E i \in Calls, produced \in BOOLEAN : ExecResolve(i, produced)
    \/ \E i \in Calls, err \in Rejections : ExecReject(i, err)
    \/ \E i \in Calls : ReadFileResolve(i)
    \/ \E i \in Calls, err \in Rejections : ReadFileReject(i, err)
    \/ \E i \in Calls : DeleteInputResolve(i)
    \/ \E i \in Calls, err \in Rejections : DeleteInputReject(i, err)
    \/ \E i \in Calls : DeleteOutputResolve(i)
    \/ \E i \in Calls, err \in Rejections : DeleteOutputReject(i, err)

Spec == Init /\ [][Next]_vars

(***************************************************************************)
(* Vocabulary of the properties.                                           *)
(***************************************************************************)
\* The staged names of the operation c.
stagedNames(c) == {inputFileName(c.file), outputFileName(c.file, c.outputFormat)}

\* The step invokes a function of the hook: the new call is the last of calls'.
Invoked == Len(calls') = Len(calls) + 1
NewOp == Invoked /\ calls'[Len(calls')].impl # "load"
NewLoad == Invoked /\ calls'[Len(calls')].impl = "load"

\* The step settles the call i, which was in flight.
Settles(i) == calls[i].result = Pending /\ calls'[i].result # Pending

InFlight == {i \in Calls : calls[i].result = Pending}
IsRejected(c) == c.result # Pending /\ ~c.result[1].ok
IsResolved(c) == c.result # Pending /\ c.result[1].ok
thrownBy(c) == c.result[1].value[1]

\* Some load() has completed successfully.
LoadHasSucceeded == \E i \in LoadCalls : IsResolved(calls[i])

(***************************************************************************)
(* C1.  Cleanup invariant: when a call of sanitize, sanitizeForCI,         *)
(* removePII or applyPrivacyGrain that started on a loaded engine settles  *)
(* (resolves or rejects), the engine's filesystem holds neither its input  *)
(* nor its output blob.                                                    *)
(***************************************************************************)
C1_NoStagedBlobOnceSettled ==
    [][\A i \in OpCalls :
          Settles(i) =>
              stagedNames(calls[i]) \cap DOMAIN engines'[calls[i].ffmpeg].fs = {}]_vars

(***************************************************************************)
(* C2.  An operation invoked while isProcessing is true is rejected at     *)
(* once (Busy): it changes neither the status (progress, isProcessing) nor *)
(* the filesystem, and awaits no engine call.                              *)
(***************************************************************************)
C2_BusyCallRejected ==
    [][(NewOp /\ state.isProcessing) =>
          /\ IsRejected(calls'[Len(calls')])
          /\ state'.progress = state.progress
          /\ state'.isProcessing = state.isProcessing
          /\ engines' = engines]_vars

(***************************************************************************)
(* C3.  Single-flight load: a load() invoked while another load() is in    *)
(* flight creates no engine instance and awaits the initialization already *)
(* in flight.                                                              *)
(***************************************************************************)
C3_SingleFlightLoad ==
    [][\A i \in LoadCalls \cap InFlight :
          NewLoad =>
              /\ Len(engines') = Len(engines)
              /\ calls'[Len(calls')].ffmpeg = calls[i].ffmpeg]_vars

(***************************************************************************)
(* C4.  An operation invoked when no load() has completed successfully     *)
(* (never called, in progress, or failed) is rejected at once with the     *)
(* not-loaded error; it awaits no engine call and the engines are left as  *)
(* they were.                                                              *)
(***************************************************************************)
C4_NotLoadedFailsAtOnce ==
    [][(NewOp /\ ~LoadHasSucceeded) =>
          /\ calls'[Len(calls')].result = Rejected(NotLoadedError)
          /\ calls'[Len(calls')].awaiting = Undefined
          /\ engines' = engines]_vars

\* An operation was rejected with the not-loaded error while a load() invoked
\* before it is still in flight, and one was rejected after a load() failed.
C4_Witness ==
    /\ \E i \in OpCalls, j \in LoadCalls \cap InFlight :
          j < i /\ calls[i].result = Rejected(NotLoadedError)
    /\ last # Undefined /\ last[1].at = "throw"

(***************************************************************************)
(* C5.  When exec rejects, the operation rejects with that fault,          *)
(* isProcessing becomes false, the rejection leaves progress as it was     *)
(* (neither 0 nor 100 is written), and error holds the fault's message.    *)
(* As claimed, the message is the text the fault carries; as amended, it   *)
(* is that text for an Error object and the operation's fallback text      *)
(* ('Sanitization failed', 'Privacy grain failed') for any other value.    *)
(***************************************************************************)
ExecRejects(i) == At(i, "exec") /\ Settles(i) /\ IsRejected(calls'[i])

\* C5 as claimed: error holds the text the fault carries, whatever the fault is.
C5_ExecRejectRecordsFaultText ==
    [][\A i \in OpCalls :
          ExecRejects(i) =>
              /\ state'.isProcessing = FALSE
              /\ state'.progress = state.progress
              /\ state'.error = Some(thrownBy(calls'[i]).text)]_vars

\* C5 as amended: error holds errorMessage(fault, fallback); the rest as claimed.
C5_ExecRejectKeepsProgress ==
    [][\A i \in OpCalls :
          ExecRejects(i) =>
              /\ state'.isProcessing = FALSE
              /\ state'.progress = state.progress
              /\ state'.error =
                     Some(errorMessage(thrownBy(calls'[i]), fallbackOf(calls[i])))]_vars

\* exec has just rejected with a value that is no Error, after the engine had
\* reported 37.5%: progress is still 38 and error is the fallback text.
C5_Witness ==
    /\ last # Undefined /\ last[1].at = "exec"
    /\ calls[last[1].call].result = Rejected(Thrown("worker error"))
    /\ state = [isLoaded |-> TRUE, isProcessing |-> FALSE, progress |-> 38,
                error |-> Some("Sanitization failed")]

(***************************************************************************)
(* C6.  A failure of deleteFile never changes the outcome: an operation    *)
(* whose write, exec and read succeeded (it stands at one of the deletes)  *)
(* is never rejected, and it settles resolved with the blob it built,      *)
(* progress 100 and error null.                                            *)
(***************************************************************************)
C6_DeleteFailureKeepsOutcome ==
    [][\A i \in OpCalls :
          (At(i, "deleteInput") \/ At(i, "deleteOutput")) =>
              /\ ~IsRejected(calls'[i])
              /\ Settles(i) =>
                    /\ calls'[i].result = Resolved(calls[i].blob)
                    /\ state'.progress = 100
                    /\ state'.error = Undefined]_vars

(***************************************************************************)
(* C7.  error holds the message of the most recent fault of any kind from  *)
(* the moment of the fault until an operation completes successfully:      *)
(* every step in which a call is rejected records the message, and a       *)
(* recorded message changes only in a step that settles a call (a later    *)
(* fault or a success), never in one that starts an operation or reports   *)
(* progress.                                                               *)
(***************************************************************************)
fallbackFor(impl) ==
    IF impl = "load" THEN "Failed to load FFmpeg"
    ELSE fallbackOf([impl |-> impl])

RejectedNow(i) ==
    /\ i \in 1..Len(calls')
    /\ IsRejected(calls'[i])
    /\ (i \in Calls => calls[i].result = Pending)

\* C7: every rejection records its message, and a recorded message changes only
\* when a call settles.
C7_ErrorHoldsLastFault ==
    [][/\ \A i \in 1..MaxCalls :
             RejectedNow(i) =>
                 state'.error = Some(errorMessage(thrownBy(calls'[i]),
                                                  fallbackFor(calls'[i].impl)))
       /\ (state.error # Undefined /\ state'.error # state.error) =>
             \E i \in 1..MaxCalls : RejectedNow(i) \/ (i \in Calls /\ Settles(i))]_vars

(***************************************************************************)
(* C8.  isProcessing always returns to false: if every promise an          *)
(* operation awaits (fetchFile, writeFile, exec, readFile, deleteFile)     *)
(* eventually resolves or rejects, every operation that set isProcessing   *)
(* is eventually settled in a state where isProcessing is false.           *)
(***************************************************************************)
\* The promise the call i awaits resolves or rejects.
Advance(i) ==
    /\ i \in Calls
    /\ \/ ToBlobURLResolve(i)
       \/ FFmpegLoadResolve(i)
       \/ FetchFileResolve(i)
       \/ WriteFileResolve(i)
       \/ \E produced \in BOOLEAN : ExecResolve(i, produced)
       \/ ReadFileResolve(i)
       \/ DeleteInputResolve(i)
       \/ DeleteOutputResolve(i)
       \/ \E err \in Rejections :
             \/ ToBlobURLReject(i, err)
             \/ FFmpegLoadReject(i, err)
             \/ FetchFileReject(i, err)
             \/ WriteFileReject(i, err)
             \/ ExecReject(i, err)
             \/ ReadFileReject(i, err)
             \/ DeleteInputReject(i, err)
             \/ DeleteOutputReject(i, err)

\* Number of calls made in one run of the specification with fairness.
MaxFairCalls == 2

FairNext == Next /\ Len(calls') <= MaxFairCalls

\* A promise that is awaited is eventually settled (no Advance step adds a call).
FairSpec ==
    Init /\ [][FairNext]_vars /\ WF_vars(\E i \in Calls : Advance(i))

\* C8: whenever an operation is in flight, isProcessing is false at some later
\* state.
C8_ProcessingReturnsToFalse ==
    (OpCalls \cap InFlight # {}) ~> ~state.isProcessing

\* An operation has just been rejected by writeFile and isProcessing is false.
C8_Witness ==
    /\ last # Undefined /\ last[1].at = "writeFile"
    /\ IsRejected(calls[last[1].call])
    /\ ~state.isProcessing

(***************************************************************************)
(* C9.  When an operation resolves, the status at that moment is           *)
(* isProcessing = false, progress = 100 and error = null.                  *)
(***************************************************************************)
C9_StatusAtSuccess ==
    [][\A i \in OpCalls :
          (Settles(i) /\ IsResolved(calls'[i])) =>
              /\ state'.isProcessing = FALSE
              /\ state'.progress = 100
              /\ state'.error = Undefined]_vars

(***************************************************************************)
(* C10.  load() is idempotent once loaded: after a load() has succeeded,   *)
(* a later load() returns at once and creates no engine instance; and      *)
(* isLoaded, once true, stays true.                                        *)
(***************************************************************************)
C10_LoadIdempotentOnceLoaded ==
    [][/\ (NewLoad /\ LoadHasSucceeded) =>
             /\ Len(engines') = Len(engines)
             /\ IsResolved(calls'[Len(calls')])
       /\ state.isLoaded => state'.isLoaded]_vars

(***************************************************************************)
(* C11.  When the initialization of the engine fails, load() rejects with  *)
(* the fault, error holds the fault's message and isLoaded stays as it was *)
(* (false while no load() has succeeded); the failure starts nothing (no   *)
(* call, no engine instance: no retry).  A load() invoked after a failure, *)
(* no load() having succeeded, creates a fresh instance and initializes    *)
(* it; an initialization that succeeds sets isLoaded and clears error.     *)
(* As claimed, the message is the text the fault carries; as amended, it   *)
(* is that text for an Error object and 'Failed to load FFmpeg' for any    *)
(* other value.                                                            *)
(***************************************************************************)
LoadRejects(i) == calls[i].impl = "load" /\ Settles(i) /\ IsRejected(calls'[i])

\* What C11 says of a failure apart from the message, and of the retry.
LoadFailureAndRetry ==
    /\ \A i \in LoadCalls :
          LoadRejects(i) =>
              /\ state'.isLoaded = state.isLoaded
              /\ ~LoadHasSucceeded => ~state'.isLoaded
              /\ Len(calls') = Len(calls)
              /\ engines' = engines
              /\ ffmpegRef' = ffmpegRef
    /\ (NewLoad /\ ~LoadHasSucceeded /\ \E j \in LoadCalls : IsRejected(calls[j])) =>
          /\ Len(engines') = Len(engines) + 1
          /\ ffmpegRef' = Len(engines')
          /\ ~engines'[ffmpegRef'].loaded
          /\ calls'[Len(calls')].result = Pending
          /\ calls'[Len(calls')].ffmpeg = ffmpegRef'
    /\ \A i \in LoadCalls :
          (Settles(i) /\ IsResolved(calls'[i])) =>
              /\ engines'[calls[i].ffmpeg].loaded
              /\ state'.isLoaded
              /\ state'.error = Undefined

\* C11 as claimed: error holds the text the fault carries, whatever the fault is.
C11_LoadFailureRecordsFaultText ==
    [][/\ LoadFailureAndRetry
       /\ \A i \in LoadCalls :
             LoadRejects(i) => state'.error = Some(thrownBy(calls'[i]).text)]_vars

\* C11 as amended: error holds errorMessage(fault, 'Failed to load FFmpeg').
C11_LoadFailureThenRetry ==
    [][/\ LoadFailureAndRetry
       /\ \A i \in LoadCalls :
             LoadRejects(i) =>
                 state'.error = Some(errorMessage(thrownBy(calls'[i]),
                                                  "Failed to load FFmpeg"))]_vars

\* A load() was rejected with a value that is no Error and left its instance
\* unloaded; a later load() created a second instance, has just succeeded and
\* cleared the error.
C11_Witness ==
    /\ \E i, j \in LoadCalls :
          /\ i < j
          /\ calls[i].result = Rejected(Thrown("worker error"))
          /\ last = Settled(j, "return")
    /\ Len(engines) = 2 /\ ~engines[1].loaded /\ engines[2].loaded
    /\ state.isLoaded /\ state.error = Undefined

(***************************************************************************)
(* The operations on a loaded engine whose calls all succeed, invoked one  *)
(* at a time with every combination of file and options.  The initial      *)
(* state is the state a first load() leaves when it succeeds.              *)
(***************************************************************************)
\* Number of calls in one run of BuildSpec, the load() included.
MaxBuildCalls == 2

InitLoaded ==
    /\ ffmpegRef = 1
    /\ engines = <<[loaded |-> TRUE, fs |-> EmptyFS]>>
    /\ state = [isLoaded |-> TRUE, isProcessing |-> FALSE, progress |-> 0,
                error |-> Undefined]
    /\ calls = <<resolve(LoadFn, Void)>>
    /\ last = Settled(1, "return")

BuildNext ==
    \/ /\ InFlight = {}
       /\ Len(calls) < MaxBuildCalls
       /\ \E req \in BuildRequests : OpCall(req)
    \/ \E i \in Calls : FetchFileResolve(i)
    \/ \E i \in Calls : WriteFileResolve(i)
    \/ \E i \in Calls : ExecResolve(i, TRUE)
    \/ \E i \in Calls : ReadFileResolve(i)
    \/ \E i \in Calls : DeleteInputResolve(i)
    \/ \E i \in Calls : DeleteOutputResolve(i)

BuildSpec == InitLoaded /\ [][BuildNext]_vars

\* The calls standing at ffmpeg.exec, and the arguments they passed to it.
AtExec == {i \in OpCalls : calls[i].awaiting # Undefined /\ calls[i].awaiting[1].fn = "exec"}
execArgs(i) == calls[i].awaiting[1].args

\* The places of the word w in the argument list a, and of the pair w v.
places(a, w) == {k \in 1..Len(a) : a[k] = w}
pairs(a, w, v) == {k \in 1..(Len(a) - 1) : a[k] = w /\ a[k + 1] = v}
BitexactFlags == {"-fflags", "-flags:v", "-flags:a"}

(***************************************************************************)
(* C12.  With stripMetadata true, the arguments an operation passes to     *)
(* exec hold the pair -map_metadata -1 exactly once, directly after        *)
(* -i <input name> and before every bit-exact flag and every -vf           *)
(* directive; with stripMetadata false, -map_metadata is not among them.   *)
(***************************************************************************)
C12_MetadataErasedOnceAfterInput ==
    \A i \in AtExec :
        LET a == execArgs(i)
        IN  IF calls[i].stripMetadata
            THEN /\ a[1] = "-i" /\ a[2] = inputFileName(calls[i].file)
                 /\ places(a, "-map_metadata") = {3}
                 /\ pairs(a, "-map_metadata", "-1") = {3}
                 /\ \A k \in 1..Len(a) :
                        a[k] \in BitexactFlags \cup {"+bitexact", "-vf"} => k > 4
            ELSE places(a, "-map_metadata") = {}

\* sanitize stands at exec with metadata erasure and the bit-exact flags, on the
\* file without an extension.
C12_Witness ==
    \E i \in AtExec :
        /\ calls[i].impl = "sanitize" /\ calls[i].file = RawNoExt
        /\ calls[i].stripMetadata /\ calls[i].deterministicEncoding
        /\ Len(execArgs(i)) = 12

(***************************************************************************)
(* C13.  Whatever the options, the arguments applyPrivacyGrain passes to   *)
(* exec hold none of -fflags +bitexact, -flags:v +bitexact and             *)
(* -flags:a +bitexact, and hold the directive -vf noise=alls=3:allf=t+u    *)
(* exactly once: one -vf, followed by that filter, and no other filter.    *)
(***************************************************************************)
IsNoiseFilter(w) == w \in {"noise=alls=3:allf=t+u"}

C13_GrainNeverBitexactOneNoise ==
    \A i \in AtExec :
        calls[i].impl = "applyPrivacyGrain" =>
            LET a == execArgs(i)
            IN  /\ \A w \in BitexactFlags \cup {"+bitexact"} : places(a, w) = {}
                /\ Cardinality(places(a, "-vf")) = 1
                /\ pairs(a, "-vf", "noise=alls=3:allf=t+u") = places(a, "-vf")
                /\ Cardinality({k \in 1..Len(a) : IsNoiseFilter(a[k])}) = 1

\* applyPrivacyGrain stands at exec, called with stripMetadata false and an
\* output format: its arguments are the input, the noise filter and the output.
C13_Witness ==
    \E i \in AtExec :
        /\ calls[i].impl = "applyPrivacyGrain"
        /\ ~calls[i].stripMetadata
        /\ calls[i].outputFormat = Some(DotPng)
        /\ execArgs(i) = <<"-i", inputFileName(calls[i].file),
                           "-vf", "noise=alls=3:allf=t+u", "-y", "output.png">>

(***************************************************************************)
(* C14.  The arguments sanitize passes to exec are those of the reference  *)
(* builder, for every stripMetadata, deterministicEncoding, input          *)
(* extension and output override:                                          *)
(*   -i input<ext>, then -map_metadata -1 if stripMetadata, then           *)
(*   -fflags +bitexact -flags:v +bitexact -flags:a +bitexact if            *)
(*   deterministicEncoding, then -y output<outExt>,                        *)
(* where outExt is the override if one is given and the input extension    *)
(* otherwise; and the blob sanitize returns has the MIME type the table    *)
(* gives for outExt, application/octet-stream when the table has none.     *)
(* A .jpg input with metadata erasure only gives                           *)
(* -i input.jpg -map_metadata -1 -y output.jpg and image/jpeg.             *)
(* The input extension of a name is what follows its last dot, dot         *)
(* included, and .mp4 when nothing does; the empty string is no override;  *)
(* the table is read with the extension in lower case.                     *)
(***************************************************************************)
\* The input extension of each file, written out.
RefExt(file) ==
    CASE file = PhotoJpg -> <<".", "j", "p", "g">>
      [] file = ClipMP4 -> <<".", "M", "P", "4">>
      [] file = RawNoExt -> <<".", "m", "p", "4">>
      [] file = TrailingDot -> <<".", "m", "p", "4">>
      [] file = DataBin -> <<".", "b", "i", "n">>
      [] file = TwoDots -> <<".", "g", "i", "f">>

RefOutExt(c) ==
    IF c.outputFormat \in {Undefined, Some(EmptyString)} THEN RefExt(c.file)
    ELSE c.outputFormat[1]

RefArgs(c) ==
    <<"-i", "input" \o Str(RefExt(c.file))>>
    \o (IF c.stripMetadata THEN <<"-map_metadata", "-1">> ELSE <<>>)
    \o (IF c.deterministicEncoding
        THEN <<"-fflags", "+bitexact", "-flags:v", "+bitexact", "-flags:a", "+bitexact">>
        ELSE <<>>)
    \o <<"-y", "output" \o Str(RefOutExt(c))>>

RefMime(ext) ==
    LET key == Str(toLowerCase(ext))
    IN  IF key \in DOMAIN mimeTypes THEN mimeTypes[key] ELSE "application/octet-stream"

ScenarioA ==
    [file |-> PhotoJpg, stripMetadata |-> TRUE, deterministicEncoding |-> FALSE,
     outputFormat |-> Undefined]

C15_RemovePIIIsSanitizeForCI ==
    [][\A f \in BuildFiles, fmt \in Formats :
          OpCall(removePII(f, [outputFormat |-> fmt])) <=> OpCall(sanitizeForCI(f, fmt))]_vars

\* A call made as removePII(b.MP4, {outputFormat: '.png'}) stands at exec with
\* the arguments of sanitizeForCI(b.MP4, '.png').
C15_Witness ==
    \E i \in AtExec :
        /\ [impl |-> calls[i].impl, file |-> calls[i].file,
            stripMetadata |-> calls[i].stripMetadata,
            deterministicEncoding |-> calls[i].deterministicEncoding,
            outputFormat |-> calls[i].outputFormat]
               = removePII(ClipMP4, [outputFormat |-> Some(DotPng)])
        /\ execArgs(i) = argsOf(sanitizeForCI(ClipMP4, Some(DotPng)))
        /\ execArgs(i) = <<"-i", "input.MP4", "-map_metadata", "-1",
                           "-fflags", "+bitexact", "-flags:v", "+bitexact",
                           "-flags:a", "+bitexact", "-y", "output.png">>

(***************************************************************************)
(* Deterministic runs: sanitizeForCI on two .jpg files with different      *)
(* bytes, on a loaded engine whose calls all succeed.  Nothing in the      *)
(* hook keeps a call from starting while another is in flight.             *)
(***************************************************************************)
DetRequests == {sanitizeForCI(PhotoJpg, Undefined), sanitizeForCI(OtherJpg, Undefined)}

DetNext ==
    \/ \E req \in DetRequests : OpCall(req)
    \/ \E i \in Calls : FetchFileResolve(i)
    \/ \E i \in Calls : WriteFileResolve(i)
    \/ \E i \in Calls : ExecResolve(i, TRUE)
    \/ \E i \in Calls : ReadFileResolve(i)
    \/ \E i \in Calls : DeleteInputResolve(i)
    \/ \E i \in Calls : DeleteOutputResolve(i)

DetSpec == InitLoaded /\ [][DetNext]_vars

(***************************************************************************)
(* C16.  Determinism.  A run of sanitize with deterministicEncoding true   *)
(* passes to the engine a staged input and arguments that depend on its    *)
(* file and options only, and, the engine being a function of its staged   *)
(* input and arguments, returns the blob that function gives for them      *)
(* with the MIME type of its output extension: two runs with the same      *)
(* bytes, name and options therefore return the same bytes and type.       *)
(***************************************************************************)
\* What a run of the call c returns when the engine encodes c's own input.
outputOf(c) ==
    [type |-> getMimeType(outputExt(c.file, c.outputFormat)),
     bytes |-> encoded(c.file.bytes,
                       sanitizeArgs(c.file, c.stripMetadata, c.deterministicEncoding,
                                    c.outputFormat))]

Issues(i, fn) == calls'[i].awaiting # calls[i].awaiting /\ calls'[i].awaiting # Undefined
                 /\ calls'[i].awaiting[1].fn = fn

C16_DeterministicRuns ==
    [][\A i \in OpCalls :
          (calls[i].impl = "sanitize" /\ calls[i].deterministicEncoding
                /\ calls[i].result = Pending) =>
              /\ Issues(i, "writeFile") =>
                    calls'[i].awaiting[1].args =
                        <<inputFileName(calls[i].file)>> \o calls[i].file.bytes
              /\ Issues(i, "exec") =>
                    calls'[i].awaiting[1].args =
                        sanitizeArgs(calls[i].file, calls[i].stripMetadata, TRUE,
                                     calls[i].outputFormat)
              /\ (Settles(i) /\ IsResolved(calls'[i])) =>
                    calls'[i].result = Resolved(Some(outputOf(calls[i])))]_vars

(***************************************************************************)
(* C17.  Within one operation the engine calls are writeFile(input),       *)
(* exec(args), readFile(output), deleteFile(input), deleteFile(output),    *)
(* in that order: a call is issued in the step in which the one before it  *)
(* resolves, a rejection of any of them settles the operation as rejected  *)
(* with no further engine call, and the operation resolves only when       *)
(* deleteFile(output) resolves.                                            *)
(***************************************************************************)
EngineCall(fn, args) == Some([fn |-> fn, args |-> args])

\* The engine calls of the operation c, in the order the claim gives.
engineCallsOf(c) ==
    << EngineCall("writeFile", <<inputFileName(c.file)>> \o c.file.bytes),
       EngineCall("exec", argsOf(c)),
       EngineCall("readFile", <<outputFileName(c.file, c.outputFormat)>>),
       EngineCall("deleteFile", <<inputFileName(c.file)>>),
       EngineCall("deleteFile", <<outputFileName(c.file, c.outputFormat)>>) >>

\* The place in engineCallsOf(c) of the call c awaits: 0 before the first
\* (fetchFile is no engine call).
stage(c) ==
    IF c.awaiting = Undefined THEN 0
    ELSE CHOOSE k \in 1..5 : engineCallsOf(c)[k] = c.awaiting

C17_EngineCallsInOrder ==
    [][/\ NewOp => calls'[Len(calls')].awaiting = Undefined
       /\ \A i \in OpCalls :
             /\ calls[i].result # Pending => calls'[i] = calls[i]
             /\ (calls[i].result = Pending /\ calls'[i] # calls[i]) =>
                    \/ /\ calls'[i].result = Pending
                       /\ stage(calls[i]) < 5
                       /\ calls'[i].awaiting = engineCallsOf(calls[i])[stage(calls[i]) + 1]
                    \/ /\ IsRejected(calls'[i])
                       /\ calls'[i].awaiting = Undefined
                    \/ /\ IsResolved(calls'[i])
                       /\ calls[i].awaiting = engineCallsOf(calls[i])[5]
                       /\ calls'[i].result = Resolved(calls[i].blob)]_vars

\* An operation has just resolved, having made its five engine calls, and
\* another has been rejected.
C17_Witness ==
    /\ last # Undefined /\ last[1].at = "return"
    /\ calls[last[1].call].impl # "load"
    /\ IsResolved(calls[last[1].call])
    /\ \E j \in OpCalls : IsRejected(calls[j]) /\ thrownBy(calls[j]) # NotLoadedError

(***************************************************************************)
(* C18.  An operation that passes the loaded check sets isProcessing to    *)
(* true and progress to 0 in the step of its invocation, before any        *)
(* engine call of its own (it awaits none yet, and the engines are as they *)
(* were), whatever progress and error the previous operation left.         *)
(***************************************************************************)
C18_StartSetsProcessingAndZero ==
    [][(NewOp /\ ~IsRejected(calls'[Len(calls')])) =>
          /\ state'.isProcessing
          /\ state'.progress = 0
          /\ calls'[Len(calls')].awaiting = Undefined
          /\ engines' = engines]_vars

\* The last call to settle was rejected by exec, which leaves progress and
\* error behind; an operation invoked after it has started and not yet staged
\* its input: isProcessing is true, progress 0 and error null.
C18_Witness ==
    /\ last # Undefined /\ last[1].at = "exec"
    /\ IsRejected(calls[last[1].call])
    /\ \E i \in OpCalls \cap InFlight :
          i > last[1].call /\ calls[i].awaiting = Undefined
    /\ state = [isLoaded |-> TRUE, isProcessing |-> TRUE, progress |-> 0,
                error |-> Undefined]

(***************************************************************************)
(* C19.  progress is an integer in 0..100 in every state: 0 at first; a    *)
(* progress event with a fraction p in [0,1] sets it to round(100 p),      *)
(* whether that is more or less than before, and changes nothing else of   *)
(* the status; an operation's start sets it to 0 and an operation's        *)
(* success to 100; nothing else changes it.                                *)
(***************************************************************************)
\* n is k/1000 as a rounded percentage: n - 1/2 <= k/10 < n + 1/2.
IsRounded(k, n) == 10 * n - 5 <= k /\ k < 10 * n + 5

\* The step is a progress event: the status changes and no call does.
ProgressStep == calls' = calls /\ state' # state

OpSucceeds == \E i \in OpCalls : Settles(i) /\ IsResolved(calls'[i])

C19_ProgressIsRoundedPercent ==
    /\ state.progress = 0
    /\ [](state.progress \in 0..100)
    /\ [][/\ ProgressStep =>
                /\ \E k \in ProgressReports : IsRounded(k, state'.progress)
                /\ state' = [state EXCEPT !.progress = state'.progress]
          /\ (NewOp /\ ~IsRejected(calls'[Len(calls')])) => state'.progress = 0
          /\ OpSucceeds => state'.progress = 100
          /\ state'.progress # state.progress =>
                \/ ProgressStep
                \/ NewOp /\ ~IsRejected(calls'[Len(calls')])
                \/ OpSucceeds]_vars

\* While exec runs, the engine has reported 37.5% and progress is 38.
C19_Witness ==
    /\ state.progress = 38
    /\ \E i \in AtExec : calls[i].result = Pending

(***************************************************************************)
(* C20.  A request with deterministicEncoding true and applyGrain true is  *)
(* accepted, and the one argument list it passes to exec holds the three   *)
(* bit-exact flags and the noise filter, in the order input, metadata      *)
(* erasure, bit-exact flags, noise filter, -y output.  The hook takes      *)
(* such a request as sanitize with applyGrain: true among its options or   *)
(* as applyPrivacyGrain with deterministicEncoding: true among its.        *)
(***************************************************************************)
CombinedRequests ==
    {sanitize(f, [stripMetadata |-> Undefined, deterministicEncoding |-> Some(TRUE),
                  outputFormat |-> Undefined, applyGrain |-> Some(TRUE)]) : f \in BuildFiles}
    \cup {applyPrivacyGrain(f, [stripMetadata |-> Undefined, outputFormat |-> Undefined,
                                deterministicEncoding |-> Some(TRUE)]) : f \in BuildFiles}

requestOf(c) ==
    [impl |-> c.impl, file |-> c.file, stripMetadata |-> c.stripMetadata,
     deterministicEncoding |-> c.deterministicEncoding, outputFormat |-> c.outputFormat]

C20_BitexactAndGrainTogether ==
    \A i \in AtExec :
        requestOf(calls[i]) \in CombinedRequests =>
            execArgs(i) =
                <<"-i", inputFileName(calls[i].file), "-map_metadata", "-1",
                  "-fflags", "+bitexact", "-flags:v", "+bitexact", "-flags:a", "+bitexact",
                  "-vf", "noise=alls=3:allf=t+u",
                  "-y", outputFileName(calls[i].file, calls[i].outputFormat)>>

(***************************************************************************)
(* C21.  isLoaded agrees with the engine the operations use: in every      *)
(* state, overlapping load() calls included, an operation invoked while    *)
(* isLoaded is true is not rejected with the not-loaded error.             *)
(***************************************************************************)
C21_LoadedStatusMeansUsable ==
    [][(NewOp /\ state.isLoaded) =>
          calls'[Len(calls')].result # Rejected(NotLoadedError)]_vars

(***************************************************************************)
(* C22.  isProcessing reflects the work in flight: in every state it is    *)
(* true exactly when some operation has passed the loaded check and has    *)
(* neither resolved nor been rejected.                                     *)
(***************************************************************************)
C22_ProcessingIffOperationInFlight ==
    state.isProcessing <=> (OpCalls \cap InFlight # {})

====
